---- MODULE Spec2Model ----
(***************************************************************************)
(* State-machine model of the mini-lsm storage engine core:                *)
(*   src/mini-lsm-starter/src/lsm_storage.rs  (MiniLsm, LsmStorageInner)   *)
(*   src/mini-lsm-starter/src/compact.rs      (force_full_compaction, ...) *)
(* Client threads call put / delete / get / scan / force_flush /           *)
(* force_full_compaction / close; the flush thread and the compaction      *)
(* thread run beside them.  Every step that the code performs under one    *)
(* lock acquisition is one action.                                         *)
(***************************************************************************)
EXTENDS Integers, Sequences, FiniteSets, TLC

\* ------------------------------------------------------------------ bounds
MaxKey == 2
MaxId == 4
MaxPuts == 2
MaxLevels == 2
TargetSstSize == 2
NumMemtableLimit == 1
\* the ids a compaction may take where its output is more than one table
MaxCompactionId == 5
MaxReopens == 1
\* flushes and compactions that fail in one run
MaxFailures == 1
\* iterations of the loop of flush_all_memtables in one call
MaxFlushAllLoops == 1

Keys == 1..MaxKey
\* the non-empty values a put may write
Values == {1}
\* the empty byte string: a tombstone when stored as a value
Empty == 0
\* no entry for the key / Ok(None)
Absent == -1
\* the call panicked
Panic == -2

Clients == {"c1", "c2"}
FlushThread == "flush_thread"
CompactionThread == "compaction_thread"
Threads == Clients \cup {FlushThread, CompactionThread}

CompactionOptions == {"NoCompaction", "Simple", "Leveled", "Tiered"}

VARIABLES
    options,            \* LsmStorageOptions of the open engine
    state,              \* the published Arc<LsmStorageState>
    mem,                \* the MemTable objects, by id
    sst,                \* the SsTable objects built so far, by id
    files,              \* ids whose NNNNN.sst file exists in the directory
    manifest,           \* the records appended to MANIFEST
    next_sst_id,        \* the AtomicUsize counter
    state_lock,         \* holder of the serialization mutex, or "free"
    pc,                 \* position of every thread
    local,              \* the stack variables of every thread
    flush_signal,       \* a message is waiting in the flush thread's channel
    compaction_signal,  \* a message is waiting in the compaction thread's channel
    close_result,       \* what MiniLsm::close returned
    nputs,              \* put and delete calls so far
    last,               \* per key, the value of the most recent put/delete
    nreopens,           \* how often the engine was dropped and reopened
    failed,             \* the flushes and compactions that returned an error
    lk,                 \* per thread: the lock operations left in its call, the
                        \* locks it holds, is it parked as a waiting writer
    put_before,         \* the keys some put has written a non-empty value to
    compactions         \* <<inputs, outputs>> of every installed compaction

vars == <<options, state, mem, sst, files, manifest, next_sst_id, state_lock,
          pc, local, flush_signal, compaction_signal, close_result, nputs, last,
          nreopens, failed, lk, put_before, compactions>>

\* ------------------------------------------------------------- sequences
Range(s) == {s[i] : i \in 1..Len(s)}

RECURSIVE Flatten(_)
Flatten(ss) == IF ss = <<>> THEN <<>> ELSE Head(ss) \o Flatten(Tail(ss))

Min(S) == CHOOSE x \in S : \A y \in S : x <= y
Max(S) == CHOOSE x \in S : \A y \in S : y <= x

\* ---------------------------------------------------- memtables and tables
EmptyData == [k \in Keys |-> Absent]

\* MemTable::create(id)
MemTableCreate == [data |-> EmptyData, size |-> 0]

\* the bytes of an entry: a key of one byte and its value, empty or of two bytes
EntrySize(v) == IF v = Empty THEN 1 ELSE 3

\* MemTable::put: the entry is stored and approximate_size grows by its bytes
MemTablePut(m, k, v) ==
    [data |-> [m.data EXCEPT ![k] = v], size |-> m.size + EntrySize(v)]

\* MemTable::is_empty
MemTableIsEmpty(m) == \A k \in Keys : m.data[k] = Absent

KeysOf(d) == {k \in Keys : d[k] # Absent}

\* SsTable::first_key / last_key; a table without entries has the empty key
FirstKey(d) == IF KeysOf(d) = {} THEN 0 ELSE Min(KeysOf(d))
LastKey(d) == IF KeysOf(d) = {} THEN 0 ELSE Max(KeysOf(d))

\* SsTableIterator::seek_to_key: the first key >= k, 0 when the iterator is invalid
SeekToKey(d, k) ==
    LET ge == {x \in KeysOf(d) : x >= k}
    IN  IF ge = {} THEN 0 ELSE Min(ge)

\* ids listed in L0 and in the levels
LevelIds(st) == Flatten([i \in 1..Len(st.levels) |-> st.levels[i][2]])
ListedIds(st) == st.l0_sstables \o LevelIds(st)

\* ------------------------------------------------------------------- state
\* LsmStorageState::create
CreateLevels(opt) ==
    IF opt \in {"Leveled", "Simple"} THEN [i \in 1..MaxLevels |-> <<i, <<>>>>]
    ELSE IF opt = "Tiered" THEN <<>>
    ELSE << <<1, <<>>>> >>

StateCreate(opt) ==
    [memtable |-> 0,
     imm_memtables |-> <<>>,
     l0_sstables |-> <<>>,
     levels |-> CreateLevels(opt),
     sstables |-> {}]

\* CompactionController::flush_to_l0
flush_to_l0 == options.compaction_options \in {"Leveled", "Simple", "NoCompaction"}

NoLocal ==
    [ret |-> "idle", snap |-> StateCreate("NoCompaction"), l0 |-> <<>>, l1 |-> <<>>,
     new_tables |-> <<>>, id |-> 0,
     \* what force_flush found when it was called
     pre |-> [memtable |-> 0, nonempty |-> FALSE, imm_empty |-> FALSE]]

\* MiniLsm::open on a fresh directory
Init ==
    /\ options \in [compaction_options : CompactionOptions, enable_wal : {FALSE}]
    /\ state = StateCreate(options.compaction_options)
    /\ mem = (0 :> MemTableCreate)
    /\ sst = <<>>
    /\ files = {}
    /\ manifest = <<>>
    /\ next_sst_id = 1
    /\ state_lock = "free"
    /\ pc = [t \in Threads |->
                IF t \in Clients THEN "idle"
                ELSE IF t = FlushThread THEN "wait"
                ELSE IF options.compaction_options = "NoCompaction" THEN "not_spawned"
                ELSE "wait"]
    /\ local = [t \in Threads |-> NoLocal]
    /\ flush_signal = FALSE
    /\ compaction_signal = FALSE
    /\ close_result = "none"
    /\ nputs = 0
    /\ last = [k \in Keys |-> Absent]
    /\ nreopens = 0
    /\ failed = {}
    /\ lk = [t \in Threads |-> [script |-> <<>>, holds |-> {}, parked |-> FALSE]]
    /\ put_before = {}
    /\ compactions = {}

\* ------------------------------------------------------------------- reads
\* LsmStorageInner::key_within
key_within(k, d) == k >= FirstKey(d) /\ k <= LastKey(d)

\* what a found value means to the caller of get
FoundValue(v) == IF v = Empty THEN Absent ELSE v

\* SstConcatIterator::create_and_seek_to_key over the tables of one level:
\* binary search on the first keys, then a seek inside the table found; the
\* iterator moves to the next table when that table is exhausted.
\* The result is <<index of the table, key>>, key 0 when the iterator is invalid.
ConcatSeekToKey(ids, k) ==
    IF ids = <<>> THEN <<0, 0>>
    ELSE LET n == Cardinality({i \in 1..Len(ids) : FirstKey(sst[ids[i]]) <= k})
             idx == IF n = 0 THEN 1 ELSE n
             found == SeekToKey(sst[ids[idx]], k)
         IN  IF found # 0 THEN <<idx, found>>
             ELSE IF idx < Len(ids) THEN <<idx + 1, FirstKey(sst[ids[idx + 1]])>>
             ELSE <<0, 0>>

\* get, lines 471-485: the levels in order
RECURSIVE GetFromLevels(_, _, _)
GetFromLevels(st, k, i) ==
    IF i > Len(st.levels) THEN Absent
    ELSE LET ids == st.levels[i][2]
         IN  IF ~(Range(ids) \subseteq st.sstables) THEN Panic
             ELSE LET pos == ConcatSeekToKey(ids, k)
                  IN  IF pos[2] = k
                      THEN FoundValue(sst[ids[pos[1]]][k])
                      ELSE GetFromLevels(st, k, i + 1)

\* get, lines 450-469: the L0 tables, newest first
RECURSIVE GetFromL0(_, _, _)
GetFromL0(st, k, i) ==
    IF i > Len(st.l0_sstables) THEN GetFromLevels(st, k, 1)
    ELSE LET id == st.l0_sstables[i]
         IN  IF id \notin st.sstables THEN Panic
             ELSE IF ~key_within(k, sst[id]) THEN GetFromL0(st, k, i + 1)
             ELSE IF SeekToKey(sst[id], k) = k THEN FoundValue(sst[id][k])
             ELSE GetFromL0(st, k, i + 1)

\* LsmStorageInner::get_from_memtable, applied to the memtables in get's order
RECURSIVE GetFromMemtables(_, _, _)
GetFromMemtables(st, k, ms) ==
    IF ms = <<>> THEN GetFromL0(st, k, 1)
    ELSE LET v == mem[Head(ms)].data[k]
         IN  IF v # Absent THEN FoundValue(v)
             ELSE GetFromMemtables(st, k, Tail(ms))

\* LsmStorageInner::get on the snapshot st
Get(st, k) == GetFromMemtables(st, k, <<st.memtable>> \o st.imm_memtables)

\* scan bounds: Bound::Unbounded, Bound::Included(k), Bound::Excluded(k)
Bounds == {<<"Unbounded", 0>>} \cup ({"Included", "Excluded"} \X Keys)

AboveLower(lower, k) ==
    CASE lower[1] = "Included" -> k >= lower[2]
      [] lower[1] = "Excluded" -> k > lower[2]
      [] OTHER -> TRUE

BelowUpper(upper, k) ==
    CASE upper[1] = "Included" -> k <= upper[2]
      [] upper[1] = "Excluded" -> k < upper[2]
      [] OTHER -> TRUE

\* LsmStorageInner::range_overlap
range_overlap(lower, upper, d) ==
    LET lower_before_last ==
            CASE lower[1] = "Included" -> lower[2] <= LastKey(d)
              [] lower[1] = "Excluded" -> lower[2] < LastKey(d)
              [] OTHER -> TRUE
        upper_after_first ==
            CASE upper[1] = "Included" -> upper[2] >= FirstKey(d)
              [] upper[1] = "Excluded" -> upper[2] > FirstKey(d)
              [] OTHER -> TRUE
    IN  lower_before_last /\ upper_after_first

\* MemTable::scan(lower, upper): the entries inside both bounds
MemTableScan(id, lower, upper) ==
    [k \in Keys |-> IF AboveLower(lower, k) /\ BelowUpper(upper, k)
                    THEN mem[id].data[k] ELSE Absent]

\* scan, lines 638-649: an L0 table's iterator positioned by the lower bound
SeekLower(d, lower) ==
    LET start == IF lower[1] = "Unbounded" THEN FirstKey(d) ELSE SeekToKey(d, lower[2])
        from == IF lower[1] = "Excluded" /\ start # 0 /\ start = lower[2]
                THEN start + 1 ELSE start
    IN  [k \in Keys |-> IF start # 0 /\ k >= from THEN d[k] ELSE Absent]

\* scan, lines 655-675: one level's concat iterator positioned by the lower bound;
\* it yields the rest of the table found and every table after it
LevelSeekLower(ids, lower) ==
    LET pos == IF lower[1] = "Unbounded"
               THEN (IF ids = <<>> THEN <<0, 0>> ELSE <<1, FirstKey(sst[ids[1]])>>)
               ELSE ConcatSeekToKey(ids, lower[2])
        from == IF lower[1] = "Excluded" /\ pos[2] = lower[2] THEN pos[2] + 1 ELSE pos[2]
        \* the first table, in iteration order, that yields k
        src(k) == {i \in 1..Len(ids) :
                      /\ sst[ids[i]][k] # Absent
                      /\ \/ i > pos[1]
                         \/ i = pos[1] /\ k >= from}
    IN  [k \in Keys |-> IF pos[1] = 0 \/ src(k) = {} THEN Absent
                        ELSE sst[ids[Min(src(k))]][k]]

\* MergeIterator / TwoMergeIterator: on equal keys the source of lower index wins
RECURSIVE MergeSources(_)
MergeSources(srcs) ==
    IF srcs = <<>> THEN EmptyData
    ELSE LET rest == MergeSources(Tail(srcs))
         IN  [k \in Keys |-> IF Head(srcs)[k] # Absent THEN Head(srcs)[k] ELSE rest[k]]

\* the sources scan hands to its three merge layers, in precedence order
ScanSources(st, lower, upper) ==
    LET l0 == st.l0_sstables
        kept == SelectSeq(l0, LAMBDA id : range_overlap(lower, upper, sst[id]))
    IN  [i \in 1..(1 + Len(st.imm_memtables)) |->
            MemTableScan((<<st.memtable>> \o st.imm_memtables)[i], lower, upper)]
        \o [i \in 1..Len(kept) |-> SeekLower(sst[kept[i]], lower)]
        \o [i \in 1..Len(st.levels) |-> LevelSeekLower(st.levels[i][2], lower)]

\* LsmIterator: ascending keys up to the upper bound, tombstones skipped
RECURSIVE LsmIterator(_, _, _)
LsmIterator(merged, upper, k) ==
    IF k > MaxKey \/ ~BelowUpper(upper, k) THEN <<>>
    ELSE IF merged[k] \in {Absent, Empty} THEN LsmIterator(merged, upper, k + 1)
    ELSE << <<k, merged[k]>> >> \o LsmIterator(merged, upper, k + 1)

\* scan, lines 634 and 658: state.sstables.get(sst_id).unwrap() on every listed id
ScanPanics(st) == ~(Range(ListedIds(st)) \subseteq st.sstables)

\* LsmStorageInner::scan on the snapshot st, run to exhaustion;
\* << <<Panic, Panic>> >> when a table id is not in the snapshot's table map
Scan(st, lower, upper) ==
    IF ScanPanics(st) THEN << <<Panic, Panic>> >>
    ELSE LsmIterator(MergeSources(ScanSources(st, lower, upper)), upper, 1)

\* ----------------------------------------------------------------- helpers
Goto(t, label) == pc' = [pc EXCEPT ![t] = label]

\* a client call starts on the open engine
Start(t) ==
    /\ t \in Clients
    /\ pc[t] = "idle"
    /\ close_result = "none"

\* ---------------------------------------------------------------- put/delete
\* put, lines 519-520: the write into the active memtable under the state read
\* lock, then the size test without the serialization mutex
Put(t, k, v) ==
    /\ Start(t)
    /\ nputs < MaxPuts
    /\ nputs' = nputs + 1
    /\ mem' = [mem EXCEPT ![state.memtable] = MemTablePut(@, k, v)]
    /\ last' = [last EXCEPT ![k] = v]
    /\ put_before' = IF v = Empty THEN put_before ELSE put_before \cup {k}
    /\ IF mem'[state.memtable].size >= TargetSstSize
       THEN Goto(t, "put_freeze")
       ELSE Goto(t, "idle")
    /\ UNCHANGED <<options, nreopens, failed, lk,
                   state, sst, files, manifest, next_sst_id, state_lock,
                   local, flush_signal, compaction_signal, close_result, compactions>>

\* a freeze that queues the active memtable without replacing it
force_freeze_keeps_active(st, id) ==
    [st EXCEPT !.imm_memtables = <<st.memtable>> \o @]

\* a freeze that queues the active memtable behind the older ones
force_freeze_at_tail(st, id) ==
    [st EXCEPT !.imm_memtables = @ \o <<st.memtable>>, !.memtable = id]

\* LsmStorageInner::force_freeze_memtable: the state it publishes
force_freeze_memtable(st, id) ==
    [st EXCEPT !.imm_memtables = <<st.memtable>> \o @, !.memtable = id]

\* the caller holds the serialization mutex; a fresh memtable takes the next id
Freeze ==
    /\ next_sst_id < MaxId
    /\ next_sst_id' = next_sst_id + 1
    /\ mem' = (next_sst_id :> MemTableCreate) @@ mem
    /\ state' = force_freeze_memtable(state, next_sst_id)

\* a second test that lets every caller freeze
put_size_test_skipped(m) == TRUE

\* put, line 523: the size test repeated under the serialization mutex
put_size_test(m) == m.size >= TargetSstSize

\* put, lines 521-525: the mutex, the second size test, the freeze
PutFreeze(t) ==
    /\ pc[t] = "put_freeze"
    /\ state_lock = "free"
    /\ IF put_size_test(mem[state.memtable])
       THEN Freeze
       ELSE UNCHANGED <<next_sst_id, mem, state>>
    /\ Goto(t, "idle")
    /\ UNCHANGED <<options, nreopens, failed, lk,
                   sst, files, manifest, state_lock, local, flush_signal,
                   compaction_signal, close_result, nputs, last, put_before, compactions>>

\* ------------------------------------------------------------------- flush
\* force_flush_next_imm_memtable, lines 571-590: the mutex, the queue's tail, the
\* table file written and synced, the manifest record appended
FlushBuild(t) ==
    /\ pc[t] = "flush"
    /\ state_lock = "free"
    /\ IF state.imm_memtables = <<>>
       THEN \* expect("Tried flushing imm memtable but there are none")
            /\ Goto(t, "panicked")
            /\ local' = [local EXCEPT ![t] = NoLocal]
            /\ UNCHANGED <<state_lock, sst, files, manifest>>
       ELSE LET id == state.imm_memtables[Len(state.imm_memtables)]
            IN  /\ state_lock' = t
                /\ local' = [local EXCEPT ![t].id = id]
                /\ sst' = (id :> mem[id].data) @@ sst
                /\ files' = files \cup {id}
                /\ manifest' = Append(manifest, <<"Flush", id>>)
                /\ Goto(t, "flush_install")
    /\ UNCHANGED <<options, nreopens, failed, lk, state, mem, next_sst_id,
                   flush_signal, compaction_signal, close_result, nputs, last,
                   put_before, compactions>>

\* a flush that adds the table and leaves its memtable in the queue
flush_install_keeps_memtable(st, id) ==
    LET added == [st EXCEPT !.sstables = @ \cup {id}]
    IN  IF flush_to_l0
        THEN [added EXCEPT !.l0_sstables = <<id>> \o @]
        ELSE [added EXCEPT !.levels = << <<id, <<id>>>> >> \o @]

\* lines 592-605: the state the flush publishes
flush_install(st, id) ==
    LET popped == [st EXCEPT !.imm_memtables = SubSeq(@, 1, Len(@) - 1),
                             !.sstables = @ \cup {id}]
    IN  IF flush_to_l0
        THEN [popped EXCEPT !.l0_sstables = <<id>> \o @]
        ELSE [popped EXCEPT !.levels = << <<id, <<id>>>> >> \o @]

FlushInstall(t) ==
    /\ pc[t] = "flush_install"
    /\ state' = flush_install(state, local[t].id)
    /\ state_lock' = "free"
    /\ Goto(t, local[t].ret)
    /\ local' = [local EXCEPT ![t] = NoLocal]
    /\ UNCHANGED <<options, nreopens, failed, lk, mem, sst, files, manifest, next_sst_id,
                   flush_signal, compaction_signal, close_result, nputs, last,
                   put_before, compactions>>

\* -------------------------------------------------------------- force_flush
\* MiniLsm::force_flush, line 249
ForceFlushCheckMemtable(t) ==
    /\ Start(t)
    /\ IF MemTableIsEmpty(mem[state.memtable])
       THEN Goto(t, "ff_check_imm")
       ELSE Goto(t, "ff_freeze")
    /\ local' = [local EXCEPT ![t].ret = "idle",
                               ![t].pre = [memtable |-> state.memtable,
                                           nonempty |-> ~MemTableIsEmpty(mem[state.memtable]),
                                           imm_empty |-> state.imm_memtables = <<>>]]
    /\ UNCHANGED <<options, nreopens, failed, lk,
                   state, mem, sst, files, manifest, next_sst_id, state_lock,
                   flush_signal, compaction_signal, close_result, last, put_before,
                   compactions, nputs>>

\* lines 250-251
ForceFlushFreeze(t) ==
    /\ pc[t] = "ff_freeze"
    /\ state_lock = "free"
    /\ Freeze
    /\ Goto(t, "ff_check_imm")
    /\ UNCHANGED <<options, nreopens, failed, lk,
                   sst, files, manifest, state_lock, local, flush_signal,
                   compaction_signal, close_result, nputs, last, put_before, compactions>>

\* lines 253-255
ForceFlushCheckImm(t) ==
    /\ pc[t] = "ff_check_imm"
    /\ IF state.imm_memtables = <<>>
       THEN /\ Goto(t, "idle")
            /\ local' = [local EXCEPT ![t] = NoLocal]
       ELSE /\ Goto(t, "flush")
            /\ UNCHANGED local
    /\ UNCHANGED <<options, nreopens, failed, lk,
                   state, mem, sst, files, manifest, next_sst_id, state_lock,
                   flush_signal, compaction_signal, close_result, nputs, last,
                   put_before, compactions>>

\* ---------------------------------------------------- force_full_compaction
\* a merge that reads the task's L0 tables and forgets its L1 tables
CompactMergeL0Only(l0, l1) == MergeSources([i \in 1..Len(l0) |-> sst[l0[i]]])

\* compact, lines 135-157: the merge iterator over the task's tables, L0 tables
\* first (lower index wins), then the concatenated L1 tables
CompactMerge(l0, l1) == MergeSources([i \in 1..Len(l0 \o l1) |-> sst[(l0 \o l1)[i]]])

\* compact, lines 162-165: is the merged entry left out of the output
CompactDrops(v) == v = Empty

\* SsTableBuilder::estimated_size: the bytes of the entries added so far
RECURSIVE SumSizes(_, _)
SumSizes(d, ks) ==
    IF ks = {} THEN 0
    ELSE LET k == CHOOSE x \in ks : TRUE
         IN  EntrySize(d[k]) + SumSizes(d, ks \ {k})

EstimatedSize(d) == SumSizes(d, KeysOf(d))

\* compact, lines 159-184: the output tables' contents, in order
RECURSIVE CompactBuild(_, _, _, _)
CompactBuild(merged, k, builder, new_tables) ==
    IF k > MaxKey THEN Append(new_tables, builder)
    ELSE IF merged[k] = Absent \/ CompactDrops(merged[k])
         THEN CompactBuild(merged, k + 1, builder, new_tables)
    ELSE IF EstimatedSize(builder) > TargetSstSize
         THEN CompactBuild(merged, k, EmptyData, Append(new_tables, builder))
    ELSE CompactBuild(merged, k + 1, [builder EXCEPT ![k] = merged[k]], new_tables)

\* a compaction that returns its output tables last table first
compact_reversed(l0, l1) ==
    LET out == CompactBuild(CompactMerge(l0, l1), 1, EmptyData, <<>>)
    IN  [i \in 1..Len(out) |-> out[Len(out) + 1 - i]]

compact(l0, l1) == CompactBuild(CompactMerge(l0, l1), 1, EmptyData, <<>>)

\* force_full_compaction, lines 191-205: the snapshot and the task
FullCompactionSnapshot(t) ==
    /\ Start(t)
    /\ IF state.levels = <<>>
       THEN \* expect("first level exists")
            /\ Goto(t, "panicked")
            /\ UNCHANGED local
       ELSE /\ local' = [local EXCEPT ![t].snap = state,
                                      ![t].l0 = state.l0_sstables,
                                      ![t].l1 = state.levels[1][2]]
            /\ Goto(t, "ffc_compact")
    /\ UNCHANGED <<options, nreopens, failed, lk,
                   state, mem, sst, files, manifest, next_sst_id, state_lock,
                   flush_signal, compaction_signal, close_result, last, put_before,
                   compactions, nputs>>

\* force_full_compaction, line 207: compact looks the task's tables up in the
\* current state, merges them and writes the output tables under fresh ids
FullCompactionCompactUpTo(t, max_id) ==
    /\ pc[t] = "ffc_compact"
    /\ IF ~(Range(local[t].l0 \o local[t].l1) \subseteq state.sstables)
       THEN \* state.sstables.get(sst_id).unwrap()
            /\ Goto(t, "panicked")
            /\ local' = [local EXCEPT ![t] = NoLocal]
            /\ UNCHANGED <<sst, files, next_sst_id>>
       ELSE LET out == compact(local[t].l0, local[t].l1)
                ids == [i \in 1..Len(out) |-> next_sst_id + i - 1]
            IN  /\ next_sst_id + Len(out) <= max_id
                /\ next_sst_id' = next_sst_id + Len(out)
                /\ sst' = [i \in Range(ids) |-> out[i - next_sst_id + 1]] @@ sst
                /\ files' = files \cup Range(ids)
                /\ local' = [local EXCEPT ![t].new_tables = ids]
                /\ Goto(t, "ffc_install")
    /\ UNCHANGED <<options, nreopens, failed, lk,
                   state, mem, manifest, state_lock, flush_signal,
                   compaction_signal, close_result, nputs, last, put_before, compactions>>

FullCompactionCompact(t) == FullCompactionCompactUpTo(t, MaxId)

\* force_full_compaction, lines 212-234: does one of the unwraps fail
full_compaction_panics(st, l0, l1) ==
    \/ Len(st.l0_sstables) < Len(l0)
    \/ ~(Range(l0 \o l1) \subseteq st.sstables)
    \/ st.levels = <<>>

\* force_full_compaction, lines 212-234: the state the compaction publishes
full_compaction_install(st, l0, l1, new_tables) ==
    [st EXCEPT !.l0_sstables = SubSeq(@, 1, Len(@) - Len(l0)),
               !.levels = [@ EXCEPT ![1] = <<1, new_tables>>],
               !.sstables = (@ \ Range(l0 \o l1)) \cup Range(new_tables)]

FullCompactionInstall(t) ==
    /\ pc[t] = "ffc_install"
    /\ state_lock = "free"
    /\ IF full_compaction_panics(state, local[t].l0, local[t].l1)
       THEN /\ Goto(t, "panicked")
            /\ local' = [local EXCEPT ![t] = NoLocal]
            /\ UNCHANGED <<state, compactions>>
       ELSE /\ state' = full_compaction_install(state, local[t].l0, local[t].l1,
                                                local[t].new_tables)
            /\ compactions' = compactions \cup
                    {<<Range(local[t].l0 \o local[t].l1), Range(local[t].new_tables)>>}
            /\ Goto(t, "ffc_delete")
            /\ UNCHANGED local
    /\ UNCHANGED <<options, nreopens, failed, lk,
                   mem, sst, files, manifest, next_sst_id, state_lock,
                   flush_signal, compaction_signal, close_result, nputs, last,
                   put_before>>

\* force_full_compaction, lines 236-238: the merged tables' files are removed
FullCompactionDelete(t) ==
    /\ pc[t] = "ffc_delete"
    /\ files' = files \ Range(local[t].l0 \o local[t].l1)
    /\ Goto(t, "idle")
    /\ local' = [local EXCEPT ![t] = NoLocal]
    /\ UNCHANGED <<options, nreopens, failed, lk,
                   state, mem, sst, manifest, next_sst_id, state_lock,
                   flush_signal, compaction_signal, close_result, nputs, last,
                   put_before, compactions>>

\* ------------------------------------------------------------- get and scan
\* get, lines 431-434, and scan, lines 620-623: one clone of the shared pointer
ReadSnapshot(t) ==
    /\ Start(t)
    /\ local' = [local EXCEPT ![t].snap = state]
    /\ Goto(t, "read")
    /\ UNCHANGED <<options, nreopens, failed, lk,
                   state, mem, sst, files, manifest, next_sst_id, state_lock,
                   flush_signal, compaction_signal, close_result, last, put_before,
                   compactions, nputs>>

\* get, lines 435-486, on the clone; a failed unwrap ends the thread
GetFinish(t) ==
    /\ pc[t] = "read"
    /\ \E k \in Keys :
          IF Get(local[t].snap, k) = Panic
          THEN Goto(t, "panicked")
          ELSE Goto(t, "idle")
    /\ local' = [local EXCEPT ![t] = NoLocal]
    /\ UNCHANGED <<options, nreopens, failed, lk,
                   state, mem, sst, files, manifest, next_sst_id, state_lock,
                   flush_signal, compaction_signal, close_result, nputs, last,
                   put_before, compactions>>

\* scan, lines 625-681, on the clone
ScanFinish(t) ==
    /\ pc[t] = "read"
    /\ IF ScanPanics(local[t].snap)
       THEN Goto(t, "panicked")
       ELSE Goto(t, "idle")
    /\ local' = [local EXCEPT ![t] = NoLocal]
    /\ UNCHANGED <<options, nreopens, failed, lk,
                   state, mem, sst, files, manifest, next_sst_id, state_lock,
                   flush_signal, compaction_signal, close_result, nputs, last,
                   put_before, compactions>>

\* ------------------------------------------------------------ flush thread
\* a test that lets the queue grow one memtable beyond the limit
flush_due_beyond_limit(st) == Len(st.imm_memtables) > NumMemtableLimit

\* trigger_flush, lines 273-274: are there more memtables than the limit
flush_due(st) == Len(st.imm_memtables) + 1 > NumMemtableLimit

\* trigger_flush, called on a tick of spawn_flush_thread's loop
trigger_flush(t) ==
    /\ t = FlushThread
    /\ pc[t] = "wait"
    /\ IF flush_due(state)
       THEN /\ Goto(t, "flush")
            /\ local' = [local EXCEPT ![t].ret = "wait"]
       ELSE UNCHANGED <<pc, local>>
    /\ UNCHANGED <<options, nreopens, failed, lk,
                   state, mem, sst, files, manifest, next_sst_id, state_lock,
                   flush_signal, compaction_signal, close_result, nputs, last,
                   put_before, compactions>>

\* spawn_flush_thread, line 292: the shutdown message ends the loop
FlushThreadReturn(t) ==
    /\ t = FlushThread
    /\ pc[t] = "wait"
    /\ flush_signal
    /\ flush_signal' = FALSE
    /\ Goto(t, "returned")
    /\ UNCHANGED <<options, nreopens, failed, lk,
                   state, mem, sst, files, manifest, next_sst_id, state_lock,
                   local, compaction_signal, close_result, nputs, last, put_before,
                   compactions>>

\* -------------------------------------------------------- compaction thread
\* spawn_compaction_thread, line 260: a tick calls trigger_compaction, which is
\* unimplemented!()
trigger_compaction(t) ==
    /\ t = CompactionThread
    /\ pc[t] = "wait"
    /\ Goto(t, "panicked")
    /\ UNCHANGED <<options, nreopens, failed, lk,
                   state, mem, sst, files, manifest, next_sst_id, state_lock,
                   local, flush_signal, compaction_signal, close_result, nputs, last,
                   put_before, compactions>>

\* spawn_compaction_thread, line 263
CompactionThreadReturn(t) ==
    /\ t = CompactionThread
    /\ pc[t] = "wait"
    /\ compaction_signal
    /\ compaction_signal' = FALSE
    /\ Goto(t, "returned")
    /\ UNCHANGED <<options, nreopens, failed, lk,
                   state, mem, sst, files, manifest, next_sst_id, state_lock,
                   local, flush_signal, close_result, nputs, last, put_before,
                   compactions>>

\* -------------------------------------------------------------------- close
ReceiverDropped(w) == pc[w] \in {"not_spawned", "returned", "panicked"}

\* MiniLsm::close, line 178: flush_notifier.send(())?
CloseSendFlush(t) ==
    /\ Start(t)
    /\ IF ReceiverDropped(FlushThread)
       THEN /\ close_result' = "Err"
            /\ UNCHANGED <<pc, flush_signal>>
       ELSE /\ close_result' = "running"
            /\ flush_signal' = TRUE
            /\ Goto(t, "close_join_flush")
    /\ UNCHANGED <<options, nreopens, failed, lk,
                   state, mem, sst, files, manifest, next_sst_id, state_lock,
                   local, compaction_signal, last, put_before, compactions, nputs>>

\* lines 179-183: the flush thread is joined, then compaction_notifier.send(())?
CloseJoinFlush(t) ==
    /\ pc[t] = "close_join_flush"
    /\ pc[FlushThread] \in {"returned", "panicked"}
    /\ IF pc[FlushThread] = "panicked" \/ ReceiverDropped(CompactionThread)
       THEN /\ close_result' = "Err"
            /\ Goto(t, "idle")
            /\ UNCHANGED compaction_signal
       ELSE /\ compaction_signal' = TRUE
            /\ Goto(t, "close_join_compaction")
            /\ UNCHANGED close_result
    /\ UNCHANGED <<options, nreopens, failed, lk,
                   state, mem, sst, files, manifest, next_sst_id, state_lock,
                   local, flush_signal, nputs, last, put_before, compactions>>

\* lines 184-190: the compaction thread is joined; without a write-ahead log
\* flush_all_memtables follows
CloseJoinCompaction(t) ==
    /\ pc[t] = "close_join_compaction"
    /\ pc[CompactionThread] \in {"returned", "panicked"}
    /\ IF pc[CompactionThread] = "panicked"
       THEN /\ close_result' = "Err"
            /\ Goto(t, "idle")
       ELSE IF options.enable_wal
       THEN /\ close_result' = "Ok"
            /\ Goto(t, "idle")
       ELSE /\ Goto(t, "flush_all_freeze")
            /\ UNCHANGED close_result
    /\ UNCHANGED <<options, nreopens, failed, lk,
                   state, mem, sst, files, manifest, next_sst_id, state_lock,
                   local, flush_signal, compaction_signal, nputs, last, put_before,
                   compactions>>

\* flush_all_memtables, lines 403-408
FlushAllFreeze(t) ==
    /\ pc[t] = "flush_all_freeze"
    /\ state_lock = "free"
    /\ IF MemTableIsEmpty(mem[state.memtable])
       THEN UNCHANGED <<next_sst_id, mem, state>>
       ELSE Freeze
    /\ Goto(t, "flush_all_loop")
    /\ UNCHANGED <<options, nreopens, failed, lk,
                   sst, files, manifest, state_lock, local, flush_signal,
                   compaction_signal, close_result, nputs, last, put_before, compactions>>

\* flush_all_memtables, lines 409-417, and close's Ok(())
FlushAllLoop(t) ==
    /\ pc[t] = "flush_all_loop"
    /\ IF state.imm_memtables = <<>>
       THEN /\ close_result' = "Ok"
            /\ Goto(t, "idle")
            /\ UNCHANGED local
       ELSE /\ local' = [local EXCEPT ![t].ret = "flush_all_loop"]
            /\ Goto(t, "flush")
            /\ UNCHANGED close_result
    /\ UNCHANGED <<options, nreopens, failed, lk,
                   state, mem, sst, files, manifest, next_sst_id, state_lock,
                   flush_signal, compaction_signal, nputs, last, put_before, compactions>>

\* -------------------------------------------------------------------- locks
\* the serialization mutex and the two sides of the RwLock around the state
Acq(l) == <<"acq", l>>
Rel(l) == <<"rel", l>>

\* self.state.read() as a temporary: the guard is dropped at the end of the
\* statement or of the `if` condition (also lines 409-413: guard, test, drop)
ReadTemp == <<Acq("read"), Rel("read")>>

\* force_freeze_memtable, lines 560-566
force_freeze_memtable_locks == <<Acq("write"), Rel("write")>>

\* force_flush_next_imm_memtable, lines 571-606, and its exits with the mutex
\* only (the expect of line 577, the `?` of lines 583-590)
force_flush_next_imm_memtable_locks ==
    {<<Acq("state_lock")>> \o ReadTemp \o <<Acq("write"), Rel("write"), Rel("state_lock")>>,
     <<Acq("state_lock")>> \o ReadTemp \o <<Rel("state_lock")>>}

\* put, lines 519-526
put_locks ==
    {ReadTemp \o ReadTemp,
     ReadTemp \o ReadTemp \o <<Acq("state_lock")>> \o ReadTemp \o <<Rel("state_lock")>>,
     ReadTemp \o ReadTemp \o <<Acq("state_lock")>> \o ReadTemp
        \o force_freeze_memtable_locks \o <<Rel("state_lock")>>}

\* MiniLsm::force_flush, lines 249-255
force_flush_locks ==
    {ReadTemp \o freeze \o ReadTemp \o flush :
        freeze \in {<<>>, <<Acq("state_lock")>> \o force_freeze_memtable_locks
                            \o <<Rel("state_lock")>>},
        flush \in {<<>>} \cup force_flush_next_imm_memtable_locks}

\* a flush_all_memtables whose loop calls the flush with its read guard alive
flush_all_keeps_guard ==
    {<<Acq("state_lock")>> \o ReadTemp \o <<Rel("state_lock"), Acq("read")>> \o flush
        \o <<Rel("read")>> : flush \in force_flush_next_imm_memtable_locks}

\* the loop of flush_all_memtables, lines 409-416, run n times before the break
RECURSIVE FlushAllLoops(_)
FlushAllLoops(n) ==
    IF n = 0 THEN {ReadTemp}
    ELSE {ReadTemp \o flush \o rest :
             flush \in force_flush_next_imm_memtable_locks, rest \in FlushAllLoops(n - 1)}

\* flush_all_memtables, lines 403-417
flush_all_memtables_locks ==
    {<<Acq("state_lock")>> \o ReadTemp \o freeze \o <<Rel("state_lock")>> \o loops :
        freeze \in {<<>>, force_freeze_memtable_locks},
        loops \in UNION {FlushAllLoops(n) : n \in 0..MaxFlushAllLoops}}

\* force_full_compaction, lines 191-235: the snapshot, compact's read guard (lines
\* 136-157), the install; and the exits after the snapshot and after compact
force_full_compaction_locks ==
    {ReadTemp,
     ReadTemp \o ReadTemp,
     ReadTemp \o ReadTemp \o <<Acq("state_lock"), Acq("write"), Rel("write"), Rel("state_lock")>>}

\* trigger_flush, lines 273-276
trigger_flush_locks ==
    {ReadTemp} \cup {ReadTemp \o flush : flush \in force_flush_next_imm_memtable_locks}

\* get and scan, lines 431-434 and 620-623
read_locks == {ReadTemp}

\* the calls a thread makes
LockScripts(t) ==
    IF t \in Clients
    THEN put_locks \cup force_flush_locks \cup flush_all_memtables_locks
            \cup force_full_compaction_locks \cup read_locks
    ELSE IF t = FlushThread THEN trigger_flush_locks
    ELSE {}

Holders(l) == {t \in Threads : l \in lk[t].holds}

\* parking_lot: Mutex is exclusive; RwLock admits a writer when nobody holds it
\* and a reader when no writer holds it and no writer is parked
CanAcquire(t, l) ==
    IF l = "state_lock" THEN Holders("state_lock") = {}
    ELSE IF l = "write" THEN Holders("read") = {} /\ Holders("write") = {}
    ELSE Holders("write") = {} /\ \A u \in Threads \ {t} : ~lk[u].parked

UnchangedButLocks ==
    UNCHANGED <<options, state, mem, sst, files, manifest, next_sst_id, state_lock, pc,
                local, flush_signal, compaction_signal, close_result, nputs, last,
                nreopens, failed, put_before, compactions>>

\* a thread enters one of its calls
LockCall(t) ==
    /\ lk[t].script = <<>>
    /\ \E s \in LockScripts(t) : lk' = [lk EXCEPT ![t].script = s]
    /\ UnchangedButLocks

\* lock() / read() / write() returns
LockAcquire(t) ==
    /\ lk[t].script # <<>>
    /\ Head(lk[t].script)[1] = "acq"
    /\ CanAcquire(t, Head(lk[t].script)[2])
    /\ lk' = [lk EXCEPT ![t] = [script |-> Tail(@.script),
                                holds |-> @.holds \cup {Head(@.script)[2]},
                                parked |-> FALSE]]
    /\ UnchangedButLocks

\* write() finds the lock taken and parks
LockPark(t) ==
    /\ lk[t].script # <<>>
    /\ Head(lk[t].script) = Acq("write")
    /\ ~CanAcquire(t, "write")
    /\ ~lk[t].parked
    /\ lk' = [lk EXCEPT ![t].parked = TRUE]
    /\ UnchangedButLocks

\* a guard is dropped
LockRelease(t) ==
    /\ lk[t].script # <<>>
    /\ Head(lk[t].script)[1] = "rel"
    /\ lk' = [lk EXCEPT ![t] = [script |-> Tail(@.script),
                                holds |-> @.holds \ {Head(@.script)[2]},
                                parked |-> FALSE]]
    /\ UnchangedButLocks

\* ------------------------------------------------- put under the read guard
\* a put that clones the memtable pointer and drops its guard before writing
put_drops_guard == {}

\* put, line 519: self.state.read() is a temporary of the statement, so the
\* guard is alive until memtable.put has returned
put_holds_guard == {"read"}

\* put, line 519: the read guard is taken and the active memtable is looked up
PutLoad(t) ==
    /\ Start(t)
    /\ nputs < MaxPuts
    /\ nputs' = nputs + 1
    /\ CanAcquire(t, "read")
    /\ lk' = [lk EXCEPT ![t].holds = put_holds_guard]
    /\ local' = [local EXCEPT ![t].id = state.memtable]
    /\ Goto(t, "put_write")
    /\ UNCHANGED <<options, nreopens, failed, state, mem, sst, files, manifest,
                   next_sst_id, state_lock, flush_signal, compaction_signal,
                   close_result, last, put_before, compactions>>

\* put, lines 519-520: the entry is written into that memtable, the guard is
\* dropped, the size is tested
PutWrite(t, k, v) ==
    /\ pc[t] = "put_write"
    /\ mem' = [mem EXCEPT ![local[t].id] = MemTablePut(@, k, v)]
    /\ last' = [last EXCEPT ![k] = v]
    /\ put_before' = IF v = Empty THEN put_before ELSE put_before \cup {k}
    /\ lk' = [lk EXCEPT ![t].holds = {}]
    /\ local' = [local EXCEPT ![t] = NoLocal]
    /\ IF mem'[state.memtable].size >= TargetSstSize
       THEN Goto(t, "put_freeze")
       ELSE Goto(t, "idle")
    /\ UNCHANGED <<options, nreopens, failed, state, sst, files, manifest, next_sst_id,
                   state_lock, flush_signal, compaction_signal, close_result, nputs,
                   compactions>>

\* the freeze of put and the install of a flush take the write side of the
\* RwLock (lines 560 and 593): they wait for the read guards to be dropped
PutFreezeLocked(t) == CanAcquire(t, "write") /\ PutFreeze(t)

FlushInstallLocked(t) == CanAcquire(t, "write") /\ FlushInstall(t)

\* ------------------------------------------------------------------ failures
\* a flush that publishes its state before it writes the table
FlushSwapsFirst == <<"swap", "build", "sync", "manifest">>

\* force_flush_next_imm_memtable, lines 582-605, in program order: the table is
\* built and written, the directory and the file are synced, the manifest record
\* is appended, the state is swapped
FlushSteps == <<"build", "sync", "manifest", "swap">>

\* the steps of the flush that end in `?`
FlushFailurePoints == {"build", "sync", "manifest"}

\* the steps completed when the step `point` returns its error
StepsBefore(steps, point) ==
    {steps[i] : i \in {j \in 1..Len(steps) : \A h \in 1..j : steps[h] # point}}

\* Manifest::add_record returning an error: the log is as it was
add_record_failed(m, record) == m

\* force_flush_next_imm_memtable returns an error from one of its `?`: the guard
\* of the serialization mutex is dropped, the caller sees the error
FlushFail(t) ==
    /\ pc[t] = "flush"
    /\ state_lock = "free"
    /\ state.imm_memtables # <<>>
    /\ Cardinality(failed) < MaxFailures
    /\ \E point \in FlushFailurePoints :
         LET id == state.imm_memtables[Len(state.imm_memtables)]
             done == StepsBefore(FlushSteps, point)
         IN  /\ sst' = IF "build" \in done THEN (id :> mem[id].data) @@ sst ELSE sst
             /\ files' = IF "build" \in done THEN files \cup {id} ELSE files
             /\ manifest' = IF "manifest" \in done
                            THEN Append(manifest, <<"Flush", id>>)
                            ELSE add_record_failed(manifest, <<"Flush", id>>)
             /\ state' = IF "swap" \in done THEN flush_install(state, id) ELSE state
             /\ failed' = failed \cup {<<"flush", {id}>>}
    /\ IF local[t].ret = "flush_all_loop"
       THEN \* flush_all_memtables and close return the error
            /\ close_result' = "Err"
            /\ Goto(t, "idle")
       ELSE \* force_flush returns it; the flush thread prints it and goes on
            /\ Goto(t, local[t].ret)
            /\ UNCHANGED close_result
    /\ local' = [local EXCEPT ![t] = NoLocal]
    /\ UNCHANGED <<options, nreopens, lk, mem, next_sst_id, state_lock, flush_signal,
                   compaction_signal, nputs, last, put_before, compactions>>

\* compact returns an error from an iterator or a table build (lines 155-182)
\* after written output tables; force_full_compaction returns it at line 207
CompactFail(t) ==
    /\ pc[t] = "ffc_compact"
    /\ Range(local[t].l0 \o local[t].l1) \subseteq state.sstables
    /\ Cardinality(failed) < MaxFailures
    /\ LET out == compact(local[t].l0, local[t].l1)
       IN  \E written \in 0..(Len(out) - 1), taken \in 0..1 :
             LET ids == [i \in 1..written |-> next_sst_id + i - 1]
             IN  /\ next_sst_id + written + taken <= MaxId
                 /\ next_sst_id' = next_sst_id + written + taken
                 /\ sst' = [i \in Range(ids) |-> out[i - next_sst_id + 1]] @@ sst
                 /\ files' = files \cup Range(ids)
    /\ failed' = failed \cup {<<"compact", Range(local[t].l0 \o local[t].l1)>>}
    /\ Goto(t, "idle")
    /\ local' = [local EXCEPT ![t] = NoLocal]
    /\ UNCHANGED <<options, nreopens, lk, state, mem, manifest, state_lock, flush_signal,
                   compaction_signal, close_result, nputs, last, put_before,
                   compactions>>

\* ----------------------------------------------------------------- recovery
\* a replay that puts the tier of a Flush record below the tiers it has
RECURSIVE replay_appends_tier(_, _)
replay_appends_tier(st, records) ==
    IF records = <<>> THEN st
    ELSE LET id == Head(records)[2]
         IN  replay_appends_tier(IF flush_to_l0
                                 THEN [st EXCEPT !.l0_sstables = <<id>> \o @]
                                 ELSE [st EXCEPT !.levels = @ \o << <<id, <<id>>>> >>],
                                 Tail(records))

\* recover, lines 343-359: the manifest records applied to the created state
RECURSIVE ReplayManifest(_, _)
ReplayManifest(st, records) ==
    IF records = <<>> THEN st
    ELSE LET id == Head(records)[2]
         IN  ReplayManifest(IF flush_to_l0
                            THEN [st EXCEPT !.l0_sstables = <<id>> \o @]
                            ELSE [st EXCEPT !.levels = << <<id, <<id>>>> >> \o @],
                            Tail(records))

\* recover, lines 389-395: a stable sort of one level's ids by first key
RECURSIVE SortByFirstKey(_)
SortByFirstKey(ids) ==
    IF ids = <<>> THEN <<>>
    ELSE LET rest == SortByFirstKey(Tail(ids))
             before == SelectSeq(rest, LAMBDA x : FirstKey(sst[x]) < FirstKey(sst[Head(ids)]))
             after == SelectSeq(rest, LAMBDA x : FirstKey(sst[x]) >= FirstKey(sst[Head(ids)]))
         IN  before \o <<Head(ids)>> \o after

\* recover, lines 378-386: SsTable::open fails on a listed id without a file
RecoverFails ==
    ~(Range(ListedIds(ReplayManifest(StateCreate(options.compaction_options), manifest)))
        \subseteq files)

\* a recovery that gives the fresh memtable the largest id it has replayed
recover_reuses_max_id ==
    LET replayed == ReplayManifest(StateCreate(options.compaction_options), manifest)
    IN  [replayed EXCEPT !.sstables = Range(ListedIds(replayed)),
                         !.memtable = Max(Range(ListedIds(replayed)) \cup {0})]

\* LsmStorageInner::recover on the directory as it is
Recover ==
    LET replayed == ReplayManifest(StateCreate(options.compaction_options), manifest)
        max_sst_id == Max(Range(ListedIds(replayed)) \cup {0})
    IN  [replayed EXCEPT
            !.sstables = Range(ListedIds(replayed)),
            !.levels = [i \in 1..Len(@) |-> <<@[i][1], SortByFirstKey(@[i][2])>>],
            !.memtable = max_sst_id + 1]

\* the engine is dropped, after close or without it, and MiniLsm::open is called
\* on its directory
Reopen(t) ==
    /\ t \in Clients
    /\ pc[t] = "idle"
    /\ nreopens < MaxReopens
    /\ nreopens' = nreopens + 1
    /\ IF RecoverFails
       THEN /\ pc' = [x \in Threads |-> IF x = t THEN "open_failed"
                                        ELSE IF x \in Clients THEN pc[x]
                                        ELSE "not_spawned"]
            /\ UNCHANGED <<state, mem, next_sst_id>>
       ELSE /\ state' = Recover
            /\ mem' = (Recover.memtable :> MemTableCreate)
            /\ next_sst_id' = Recover.memtable + 1
            /\ pc' = [x \in Threads |->
                        IF x \in Clients THEN pc[x]
                        ELSE IF x = FlushThread THEN "wait"
                        ELSE IF options.compaction_options = "NoCompaction"
                        THEN "not_spawned"
                        ELSE "wait"]
    /\ state_lock' = "free"
    /\ local' = [x \in Threads |-> NoLocal]
    /\ flush_signal' = FALSE
    /\ compaction_signal' = FALSE
    /\ close_result' = "none"
    /\ UNCHANGED <<options, sst, files, manifest, nputs, last, failed, lk, put_before,
                   compactions>>

\* --------------------------------------------------------------------- spec
\* the calls and steps of the client threads in C
ClientNext(C) ==
    \/ \E t \in C, k \in Keys, v \in Values \cup {Empty} : Put(t, k, v)
    \/ \E t \in C : PutFreeze(t)
    \/ \E t \in C : ForceFlushCheckMemtable(t)
    \/ \E t \in C : ForceFlushFreeze(t)
    \/ \E t \in C : ForceFlushCheckImm(t)
    \/ \E t \in C : FullCompactionSnapshot(t)
    \/ \E t \in C : FullCompactionCompact(t)
    \/ \E t \in C : FullCompactionInstall(t)
    \/ \E t \in C : FullCompactionDelete(t)
    \/ \E t \in C : ReadSnapshot(t)
    \/ \E t \in C : GetFinish(t)
    \/ \E t \in C : ScanFinish(t)

\* the flush of the oldest immutable memtable, by any thread, and the flush thread
FlushNext ==
    \/ \E t \in Threads : FlushBuild(t)
    \/ \E t \in Threads : FlushInstall(t)
    \/ trigger_flush(FlushThread)

\* MiniLsm::close, and the ends of the two background threads
CloseNext(C) ==
    \/ \E t \in C : CloseSendFlush(t)
    \/ \E t \in C : CloseJoinFlush(t)
    \/ \E t \in C : CloseJoinCompaction(t)
    \/ \E t \in C : FlushAllFreeze(t)
    \/ \E t \in C : FlushAllLoop(t)
    \/ FlushThreadReturn(FlushThread)
    \/ trigger_compaction(CompactionThread)
    \/ CompactionThreadReturn(CompactionThread)

\* one client thread calling put, delete, get, scan, force_flush and
\* force_full_compaction beside the flush thread
Next == ClientNext({"c1"}) \/ FlushNext

\* the same with close and the compaction thread
NextClose == ClientNext({"c1"}) \/ FlushNext \/ CloseNext({"c1"})

\* puts, the flush thread and force_full_compaction with room for two output
\* tables
NextCompact ==
    \/ \E k \in Keys, v \in Values \cup {Empty} : Put("c1", k, v)
    \/ PutFreeze("c1")
    \/ FlushNext
    \/ FullCompactionSnapshot("c1")
    \/ FullCompactionCompactUpTo("c1", MaxCompactionId)
    \/ FullCompactionInstall("c1")
    \/ FullCompactionDelete("c1")

\* put and force_full_compaction of one client beside the flush thread, where a
\* flush or a compaction may return an error
NextFail ==
    \/ \E k \in Keys, v \in Values : Put("c1", k, v)
    \/ PutFreeze("c1")
    \/ FlushNext
    \/ \E t \in Threads : FlushFail(t)
    \/ FullCompactionSnapshot("c1")
    \/ FullCompactionCompact("c1")
    \/ FullCompactionInstall("c1")
    \/ FullCompactionDelete("c1")
    \/ CompactFail("c1")

\* put, delete and force_flush of one client beside the flush thread, where a
\* flush may return an error
NextFlush ==
    \/ \E k \in Keys, v \in Values \cup {Empty} : Put("c1", k, v)
    \/ PutFreeze("c1")
    \/ ForceFlushCheckMemtable("c1")
    \/ ForceFlushFreeze("c1")
    \/ ForceFlushCheckImm("c1")
    \/ FlushNext
    \/ \E t \in Threads : FlushFail(t)

\* put and delete called by two clients at once, beside the flush thread
NextPut ==
    \/ \E t \in Clients, k \in Keys, v \in Values \cup {Empty} : Put(t, k, v)
    \/ \E t \in Clients : PutFreeze(t)
    \/ FlushNext

\* put and delete of two clients, step by step under the state's RwLock, beside
\* the flush thread
NextPutGuard ==
    \/ \E t \in Clients : PutLoad(t)
    \/ \E t \in Clients, k \in Keys, v \in Values \cup {Empty} : PutWrite(t, k, v)
    \/ \E t \in Clients : PutFreezeLocked(t)
    \/ \E t \in Threads : FlushBuild(t)
    \/ \E t \in Threads : FlushInstallLocked(t)
    \/ trigger_flush(FlushThread)

\* one client in put and delete, another in force_flush, and the flush thread
NextFreeze ==
    \/ \E k \in Keys, v \in Values \cup {Empty} : Put("c1", k, v)
    \/ PutFreeze("c1")
    \/ ForceFlushCheckMemtable("c2")
    \/ ForceFlushFreeze("c2")
    \/ ForceFlushCheckImm("c2")
    \/ FlushNext

\* the lock operations of two clients and the flush thread, interleaved
NextLocks ==
    \/ \E t \in Threads : LockCall(t)
    \/ \E t \in Threads : LockAcquire(t)
    \/ \E t \in Threads : LockPark(t)
    \/ \E t \in Threads : LockRelease(t)

\* every client call, close, and the engine dropped and reopened
NextRecover == NextClose \/ Reopen("c1")

Spec == Init /\ [][Next]_vars

SpecCompact == Init /\ [][NextCompact]_vars

SpecRecover == Init /\ [][NextRecover]_vars

SpecFail == Init /\ [][NextFail]_vars

SpecLocks == Init /\ [][NextLocks]_vars

SpecFlush == Init /\ [][NextFlush]_vars

SpecPut == Init /\ [][NextPut]_vars

SpecFreeze == Init /\ [][NextFreeze]_vars

SpecPutGuard == Init /\ [][NextPutGuard]_vars

\* the same, where the flush thread's ticker keeps firing (every 50 ms) and the
\* thread, once in a flush, goes on with it
SpecPutLive ==
    /\ Init
    /\ [][NextPut]_vars
    /\ WF_vars(trigger_flush(FlushThread))
    /\ WF_vars(FlushBuild(FlushThread))
    /\ WF_vars(FlushInstall(FlushThread))

SpecClose == Init /\ [][NextClose]_vars

\* --------------------------------------------------------------- properties
Listed(st) == Range(ListedIds(st))

NoDuplicates(s) == \A i, j \in 1..Len(s) : s[i] = s[j] => i = j

InQueue(st, m) == m \in Range(st.imm_memtables)

\* the memtables that are no longer the active one
FrozenIds == DOMAIN mem \ {state.memtable}

\* the tables some installed compaction merged and removed
Consumed == UNION {c[1] : c \in compactions}

\* the contents of the tables ids, in order
Contents(ids) == [i \in 1..Len(ids) |-> sst[ids[i]]]

\* C1: when the most recent write to key k is a put of a non-empty value v,
\* get(k) on the published state returns v, in every reachable state and
\* under every compaction option.
C1_PutThenGet ==
    \A k \in Keys : last[k] \in Values => Get(state, k) = last[k]

\* C2: when key k was put and its most recent write is a delete, get(k) on the
\* published state returns not-found, in every reachable state and under every
\* compaction option.
C2_DeleteStaysDeleted ==
    \A k \in put_before : last[k] = Empty => Get(state, k) = Absent

\* the layers of st from the newest to the oldest: the active memtable, the
\* immutable memtables, the L0 tables, the tables of the levels
Layers(st) ==
    [i \in 1..(1 + Len(st.imm_memtables)) |->
        mem[(<<st.memtable>> \o st.imm_memtables)[i]].data]
    \o Contents(ListedIds(st))

NewestEntry(st, k) ==
    LET has == {i \in 1..Len(Layers(st)) : Layers(st)[i][k] # Absent}
    IN  IF has = {} THEN Absent ELSE Layers(st)[Min(has)][k]

RECURSIVE ExpectedScanFrom(_, _, _, _)
ExpectedScanFrom(st, lower, upper, k) ==
    IF k > MaxKey THEN <<>>
    ELSE (IF /\ AboveLower(lower, k)
             /\ BelowUpper(upper, k)
             /\ NewestEntry(st, k) \notin {Absent, Empty}
          THEN << <<k, NewestEntry(st, k)>> >>
          ELSE <<>>)
         \o ExpectedScanFrom(st, lower, upper, k + 1)

\* C3: scan(lower, upper) over the published state yields, in ascending key
\* order and once each, exactly the keys inside the bounds whose newest entry
\* has a non-empty value, with that value; and range_overlap keeps every L0
\* table that holds a key inside the bounds.
C3_ScanYieldsNewest ==
    \A lower \in Bounds, upper \in Bounds :
        /\ Scan(state, lower, upper) = ExpectedScanFrom(state, lower, upper, 1)
        /\ \A i \in 1..Len(state.l0_sstables) :
              LET d == sst[state.l0_sstables[i]]
              IN  (\E k \in KeysOf(d) : AboveLower(lower, k) /\ BelowUpper(upper, k))
                      => range_overlap(lower, upper, d)

\* C4: in every published state no table id is listed twice across L0 and the
\* levels, and every listed id has an entry in the table map.
C4_ListsWellFormed ==
    /\ NoDuplicates(ListedIds(state))
    /\ Listed(state) \subseteq state.sstables

\* is m the newest table of st: the head of L0, or the head tier under tiered
HeadTable(st, m) ==
    IF flush_to_l0
    THEN st.l0_sstables # <<>> /\ Head(st.l0_sstables) = m
    ELSE st.levels # <<>> /\ Head(st.levels) = <<m, <<m>>>>

\* C5: a flush is one transition of the published state: before it memtable m
\* is the tail of the immutable queue and the table map has no table m, after
\* it the queue has no m and table m is in the table map at the head of L0 (the
\* head tier under tiered); no published state has both memtable m in the queue
\* and table m, and none has neither unless a compaction consumed table m.
C5_FlushAtomic ==
    /\ [](\A m \in FrozenIds :
            /\ ~(InQueue(state, m) /\ m \in state.sstables)
            /\ InQueue(state, m) \/ m \in state.sstables \/ m \in Consumed)
    /\ [][\A m \in DOMAIN mem :
            (\/ InQueue(state, m) /\ ~InQueue(state', m)
             \/ m \notin state.sstables /\ m \in state'.sstables)
            => /\ m = state.imm_memtables[Len(state.imm_memtables)]
               /\ m \notin state.sstables
               /\ m \notin Listed(state)
               /\ ~InQueue(state', m)
               /\ m \in state'.sstables
               /\ HeadTable(state', m)]_vars

\* a flush has installed table m while a younger memtable waits in the queue
C5_Witness ==
    \E m \in FrozenIds :
        /\ m \in state.sstables
        /\ HeadTable(state, m)
        /\ state.imm_memtables # <<>>

\* C6: the snapshot a get or scan works on lists only ids present in its own
\* table map, and of every compaction it shows all of the inputs or none, all
\* of the outputs or none, and never inputs and outputs together.
C6_ReaderSnapshot ==
    \A t \in Clients : pc[t] = "read" =>
        LET seen == Listed(local[t].snap)
        IN  /\ seen \subseteq local[t].snap.sstables
            /\ \A c \in compactions :
                  /\ c[1] \cap seen = {} \/ c[1] \subseteq seen
                  /\ c[2] \cap seen = {} \/ c[2] \subseteq seen
                  /\ c[1] \cap seen = {} \/ c[2] \cap seen = {}

\* the step in which client t's force_flush, called on a non-empty active
\* memtable, returns
ForceFlushReturns(t) ==
    /\ local[t].pre.nonempty
    /\ pc[t] \in {"ff_check_imm", "flush_install"}
    /\ pc'[t] = "idle"

\* what force_flush is expected to leave behind
AfterForceFlush(t) ==
    /\ state'.imm_memtables = <<>>
    /\ MemTableIsEmpty(mem'[state'.memtable])
    /\ HeadTable(state', local[t].pre.memtable)

C8_TombstonesKept ==
    \A t \in Clients :
        pc[t] = "ffc_install" /\ Len(local[t].snap.levels) > 1 =>
            \A k \in Keys :
                CompactMerge(local[t].l0, local[t].l1)[k] = Empty =>
                    \E i \in 1..Len(local[t].new_tables) :
                        sst[local[t].new_tables[i]][k] = Empty

\* the step in which client t's force_full_compaction publishes its result,
\* having been called on a state without L0 tables whose L1 is the output of
\* an earlier compaction
SteadyInstall(t) ==
    /\ pc[t] = "ffc_install"
    /\ pc'[t] = "ffc_delete"
    /\ local[t].l0 = <<>>
    /\ state.l0_sstables = <<>>
    /\ local[t].l1 = state.levels[1][2]
    /\ \E c \in compactions : c[2] = Range(local[t].l1)

\* C9 as stated: force_full_compaction on a steady state produces no new table
\* and leaves L1's list of table ids unchanged.
C9_NoNewTable ==
    [][\A t \in Clients :
          SteadyInstall(t) => /\ local[t].new_tables = <<>>
                              /\ state'.levels[1][2] = state.levels[1][2]]_vars

\* C9: force_full_compaction on a steady state writes at least one new table
\* and lists its output as L1; L0 stays empty, and L1 holds as many tables with
\* the same contents in the same order, under ids none of which it held
\* before, so that every get returns what it returned before.
C9_SameContents ==
    [][\A t \in Clients :
          SteadyInstall(t) =>
              /\ local[t].new_tables # <<>>
              /\ state'.levels[1][2] = local[t].new_tables
              /\ state'.l0_sstables = <<>>
              /\ Contents(state'.levels[1][2]) = Contents(state.levels[1][2])
              /\ Range(state'.levels[1][2]) \cap Range(state.levels[1][2]) = {}
              /\ \A k \in Keys : Get(state', k) = Get(state, k)]_vars

\* a second force_full_compaction has replaced a merged L1 that holds an entry
C9_Witness ==
    \E t \in Clients :
        /\ pc[t] = "ffc_delete"
        /\ local[t].l0 = <<>>
        /\ state.l0_sstables = <<>>
        /\ state.levels[1][2] = local[t].new_tables
        /\ \E c \in compactions : c[2] = Range(local[t].l1)
        /\ \E i \in 1..Len(local[t].l1) : KeysOf(sst[local[t].l1[i]]) # {}

\* C10: once close has returned, it returned Ok and left the active memtable
\* and the immutable queue empty.
C10_CloseFlushesAll ==
    close_result \in {"Ok", "Err"} =>
        /\ close_result = "Ok"
        /\ state.imm_memtables = <<>>
        /\ MemTableIsEmpty(mem[state.memtable])

\* C11: when the engine is reopened after close has returned, close returned
\* Ok, the open succeeds, and get returns for every key what it returned on
\* the closed engine.
C11_RecoveryRoundTrip ==
    [][\A t \in Clients :
          Reopen(t) /\ close_result # "none" =>
              /\ close_result = "Ok"
              /\ pc'[t] = "idle"
              /\ \A k \in Keys : Get(state, k)' = Get(state, k)]_vars

\* no flush stands between its manifest record and its state swap
NoFlushInFlight == \A x \in Threads : pc[x] # "flush_install"

\* C12: when the engine is dropped without close and reopened, the open
\* succeeds, the recovered L0 and levels equal those of the last published
\* state and name only tables whose files exist, and get returns for every key
\* what the tables of the last published state hold for it.
C12_CrashConsistent ==
    [][\A t \in Clients :
          Reopen(t) /\ close_result = "none" /\ NoFlushInFlight =>
              /\ pc'[t] = "idle"
              /\ state'.l0_sstables = state.l0_sstables
              /\ state'.levels = state.levels
              /\ Listed(state') \subseteq files
              /\ \A k \in Keys : Get(state, k)' = GetFromL0(state, k, 1)]_vars

\* are the tables ids in ascending key order without a key in two of them
SortedDisjoint(ids) ==
    /\ \A i \in 1..(Len(ids) - 1) : LastKey(sst[ids[i]]) < FirstKey(sst[ids[i + 1]])
    /\ \A i, j \in 1..Len(ids) : i # j => KeysOf(sst[ids[i]]) \cap KeysOf(sst[ids[j]]) = {}

\* C13: in every published state, after force_full_compaction as well, and in
\* the state recovery builds from the directory, the tables of each level are
\* in ascending key order, each table's last key below the next table's first
\* key, and no key is in two tables of one level.
C13_LevelsSorted ==
    /\ \A i \in 1..Len(state.levels) : SortedDisjoint(state.levels[i][2])
    /\ ~RecoverFails =>
          \A i \in 1..Len(Recover.levels) : SortedDisjoint(Recover.levels[i][2])

\* force_full_compaction has installed a level of two tables
C13_Witness ==
    /\ pc["c1"] = "ffc_delete"
    /\ state.levels # <<>>
    /\ state.levels[1][2] = local["c1"].new_tables
    /\ Len(state.levels[1][2]) >= 2

\* C14: a force_flush_next_imm_memtable that returns an error from its table
\* build, its syncs or its manifest append, and a force_full_compaction whose
\* compact returns an error, leave the published state (queue, L0, levels, table
\* map) and the manifest as they were and do not panic; the failed flush has
\* released the serialization mutex and its memtable is still the queue's tail,
\* so the call can be made again.
C14_FailureLeavesState ==
    [][\A t \in Threads :
         /\ FlushFail(t) =>
               /\ state' = state
               /\ manifest' = manifest
               /\ state_lock' = "free"
               /\ pc'[t] \in {"idle", "wait"}
               /\ state'.imm_memtables # <<>>
         /\ CompactFail(t) =>
               /\ state' = state
               /\ manifest' = manifest
               /\ state_lock' = state_lock
               /\ pc'[t] = "idle"]_vars

\* a flush failed, was made again and its table is listed, recorded once
C14_Witness ==
    \E f \in failed :
        /\ f[1] = "flush"
        /\ f[2] \subseteq Listed(state)
        /\ \A id \in f[2] :
              Cardinality({i \in 1..Len(manifest) : manifest[i] = <<"Flush", id>>}) = 1

\* a compaction failed and a later one over the same tables was installed
C14_CompactionRetried ==
    \E f \in failed, c \in compactions : f[1] = "compact" /\ f[2] = c[1] /\ c[1] # {}

\* C15: no step of force_full_compaction (its snapshot, its compact, its
\* install) panics; whatever fails is returned to the caller as an error.
C15_CompactionNeverPanics ==
    [][\A t \in Clients :
         (\/ FullCompactionSnapshot(t)
          \/ FullCompactionCompact(t)
          \/ FullCompactionInstall(t)) => pc'[t] # "panicked"]_vars

\* the lock a thread is asking for
Requests(t, l) == lk[t].script # <<>> /\ Head(lk[t].script) = Acq(l)

Blocked(t) == \E l \in {"state_lock", "read", "write"} : Requests(t, l) /\ ~CanAcquire(t, l)

\* C16: no thread asks for the serialization mutex while it holds a side of the
\* state's RwLock, none asks for the write side or once more for the read side
\* while it holds a read guard, and the threads inside a call are never all
\* blocked.
C16_LockOrder ==
    /\ \A t \in Threads :
          /\ Requests(t, "state_lock") => lk[t].holds \cap {"read", "write"} = {}
          /\ Requests(t, "write") => lk[t].holds \cap {"read", "write"} = {}
          /\ Requests(t, "read") => lk[t].holds \cap {"read", "write"} = {}
    /\ LET inside == {t \in Threads : lk[t].script # <<>>}
       IN  inside # {} => \E t \in inside : ~Blocked(t)

\* one thread holds the mutex and the write side while the two others wait, one
\* for the mutex and one for the read side
C16_Witness ==
    \E t, u, w \in Threads :
        /\ lk[t].holds = {"state_lock", "write"}
        /\ Requests(u, "state_lock") /\ Blocked(u)
        /\ Requests(w, "read") /\ Blocked(w)

\* the tables merged by the compaction installed on this step, if any
InstalledInputs == UNION {c[1] : c \in compactions' \ compactions}

\* C17: every step that replaces the published state is made with the
\* serialization mutex held by the acting thread (taken in the step, or held
\* since the flush began), and it overwrites nothing another step published: a
\* queued memtable leaves the queue only as a listed table, and a listed table
\* leaves the lists only as an input of the compaction being installed.
C17_PublicationsSerialized ==
    [][state' # state =>
         /\ \/ state_lock = "free"
            \/ \E t \in Threads : state_lock = t /\ FlushInstall(t)
         /\ Range(state.imm_memtables) \ Range(state'.imm_memtables) \subseteq Listed(state')
         /\ Range(state.imm_memtables) \subseteq
                Range(state'.imm_memtables) \cup Listed(state')
         /\ Listed(state) \ Listed(state') \subseteq InstalledInputs]_vars

\* C18: the install of force_full_compaction, whatever ran since its inputs
\* were chosen, does not panic and takes out of L0, the levels and the table
\* map exactly the tables it merged, putting its output in their place; every
\* other listed table is still listed.
C18_InstallRemovesOnlyInputs ==
    [][\A t \in Clients : FullCompactionInstall(t) =>
         LET inputs == Range(local[t].l0 \o local[t].l1)
             outputs == Range(local[t].new_tables)
         IN  /\ pc'[t] # "panicked"
             /\ Listed(state') = (Listed(state) \ inputs) \cup outputs
             /\ state'.sstables = (state.sstables \ inputs) \cup outputs]_vars

\* C19: the flush thread never panics: a tick does not call
\* force_flush_next_imm_memtable on an empty queue, so the thread is waiting
\* for a tick, flushing, or has returned on the shutdown message.
C19_FlushWorkerSurvives == pc[FlushThread] \in {"wait", "flush", "flush_install", "returned"}

\* C20: with Leveled, Simple or Tiered options a tick of the compaction thread
\* is served and the thread goes on to the next one: it is waiting for a tick
\* or has returned on the shutdown message.
C20_CompactionWorkerServesTicks ==
    options.compaction_options # "NoCompaction" =>
        pc[CompactionThread] \in {"wait", "returned"}

\* the ids of the manifest's Flush records, in order
FlushedIds == [i \in 1..Len(manifest) |-> manifest[i][2]]

Reverse(q) == [i \in 1..Len(q) |-> q[Len(q) + 1 - i]]

FlushesInFlight == {t \in Threads : pc[t] = "flush_install"}

\* C21: memtables are flushed in the order they were frozen (the queue runs
\* from the newest at its head to the oldest at its tail and the Flush records
\* name strictly older memtables first), at most one flush is between its
\* manifest record and its install, every record names a table whose file is
\* written, and the records, but for the one of the flush in flight, are the
\* ids installed at the head of L0 (or as head tier), oldest first.
C21_FlushOrder ==
    /\ Cardinality(FlushesInFlight) <= 1
    /\ \A i, j \in 1..Len(state.imm_memtables) :
          i < j => state.imm_memtables[i] > state.imm_memtables[j]
    /\ \A i, j \in 1..Len(manifest) : i < j => FlushedIds[i] < FlushedIds[j]
    /\ \A i \in 1..Len(manifest) : \A m \in Range(state.imm_memtables) :
          FlushedIds[i] <= m
    /\ Range(FlushedIds) \subseteq files
    /\ LET installed == IF FlushesInFlight = {} THEN FlushedIds
                        ELSE SubSeq(FlushedIds, 1, Len(FlushedIds) - 1)
       IN  Reverse(installed) = IF flush_to_l0 THEN state.l0_sstables ELSE LevelIds(state)

\* two memtables were flushed one after the other, and a third flush is in
\* flight or none is
C21_Witness ==
    /\ Len(manifest) >= 2
    /\ Len(ListedIds(state)) >= 2

\* C22: the published state never lists, in L0 or in a level, a table whose
\* file is not in the directory: force_full_compaction removes a file only
\* once no published list names its table.
C22_ListedFilesExist == Listed(state) \subseteq files

\* LsmStorageInner::open, line 312: the counter an open of this directory
\* would start from
RecoveredNextSstId == Recover.memtable + 1

\* the ids a state refers to: its memtables and its listed tables
ReferencedIds(st) == {st.memtable} \cup Range(st.imm_memtables) \cup Listed(st)

\* C23: the next-id counter is above the id of the active memtable, of every
\* immutable memtable and of every listed table, in every state of a run and
\* in the state an open of the directory would recover; the ids of memtables and
\* of compaction outputs are all below the counter and no id is both; a listed
\* table that came from a flush has its memtable's id and contents.
C23_CounterAboveIds ==
    /\ \A id \in ReferencedIds(state) : id < next_sst_id
    /\ ~RecoverFails => \A id \in ReferencedIds(Recover) : id < RecoveredNextSstId
    /\ ~RecoverFails => \A id \in Listed(Recover) : id < Recover.memtable
    /\ \A id \in DOMAIN mem \cup DOMAIN sst : id < next_sst_id
    /\ \A c \in compactions : c[2] \cap DOMAIN mem = {}
    /\ \A t \in Clients : Range(local[t].new_tables) \cap DOMAIN mem = {}
    /\ \A c, d \in compactions : c # d => c[2] \cap d[2] = {}
    /\ \A i \in 1..Len(manifest) :
          /\ manifest[i][2] \in DOMAIN mem
          /\ sst[manifest[i][2]] = mem[manifest[i][2]].data

\* flushed tables and a compaction's output are in the state, a memtable is
\* queued, and the directory can be recovered
C23_Witness ==
    /\ manifest # <<>>
    /\ ~RecoverFails
    /\ \E c \in compactions : c[2] \subseteq Listed(state)
    /\ state.imm_memtables # <<>>

\* C24: with several threads in put at once, a memtable that passed the size
\* test is frozen once and only memtables that pass it are frozen: every
\* memtable that put has moved out of the active place holds at least
\* target_sst_size bytes (so none is the fresh one another thread installed),
\* the queue names no memtable twice and never the active one.
C24_FrozenOnce ==
    /\ \A m \in FrozenIds : mem[m].size >= TargetSstSize
    /\ NoDuplicates(state.imm_memtables)
    /\ ~InQueue(state, state.memtable)
    /\ Cardinality(FrozenIds) <= nputs

\* both clients have passed the first size test on one memtable, one of them
\* has frozen it and the other has yet to take the mutex
C24_Witness ==
    /\ pc["c1"] = "put_freeze"
    /\ pc["c2"] = "idle"
    /\ nputs = 2
    /\ Cardinality(FrozenIds) = 1
    /\ \A m \in FrozenIds : mem[m].size >= 2 * EntrySize(Empty)
    /\ MemTableIsEmpty(mem[state.memtable])

\* C25: a tick of the flush thread starts a flush exactly when the queue's
\* length plus one is above num_memtable_limit, that flush takes one memtable,
\* the oldest, out of the queue, and once the writes have stopped the queue's
\* length plus one comes down to the limit and stays there.
C25_FlushLiveness ==
    /\ [][/\ trigger_flush(FlushThread) =>
               (pc'[FlushThread] = "flush"
                  <=> Len(state.imm_memtables) + 1 > NumMemtableLimit)
          /\ FlushInstall(FlushThread) =>
               state'.imm_memtables =
                   SubSeq(state.imm_memtables, 1, Len(state.imm_memtables) - 1)]_vars
    /\ <>[](Len(state.imm_memtables) + 1 <= NumMemtableLimit)

\* the writes are over, two memtables more than the limit allows are queued
\* and the flush thread is in its flush
C25_Witness ==
    /\ nputs = MaxPuts
    /\ Len(state.imm_memtables) + 1 > NumMemtableLimit + 1
    /\ pc[FlushThread] = "flush_install"

\* the state recover has after the first n records of the manifest
ReplayPrefix(n) ==
    ReplayManifest(StateCreate(options.compaction_options), SubSeq(manifest, 1, n))

\* C26 as stated: the replay of a Flush(id) record puts id at the head of L0
\* when the strategy flushes to L0, and otherwise adds the tier (id, [id]) as
\* the last element of the tier list.
C26_ReplayFlushBottomTier ==
    \A n \in 1..Len(manifest) :
        LET id == manifest[n][2]
            before == ReplayPrefix(n - 1)
            after == ReplayPrefix(n)
        IN  IF flush_to_l0
            THEN after = [before EXCEPT !.l0_sstables = <<id>> \o @]
            ELSE after = [before EXCEPT !.levels = @ \o << <<id, <<id>>>> >>]

\* C26, amended: the replay of a Flush(id) record puts id at the head of L0
\* when the strategy flushes to L0, and otherwise adds the tier (id, [id]) as
\* the first element of the tier list, where a flush of the running engine
\* puts it; so the replayed lists are those the flushes published.
C26_ReplayFlushHeadTier ==
    /\ \A n \in 1..Len(manifest) :
          LET id == manifest[n][2]
              before == ReplayPrefix(n - 1)
              after == ReplayPrefix(n)
          IN  IF flush_to_l0
              THEN after = [before EXCEPT !.l0_sstables = <<id>> \o @]
              ELSE after = [before EXCEPT !.levels = << <<id, <<id>>>> >> \o @]
    /\ FlushesInFlight = {} =>
          /\ ReplayPrefix(Len(manifest)).l0_sstables = state.l0_sstables
          /\ ReplayPrefix(Len(manifest)).levels = state.levels

\* a tiered engine has flushed two memtables
C26_Witness ==
    /\ ~flush_to_l0
    /\ Len(manifest) >= 2
    /\ FlushesInFlight = {}

\* C27: put writes only into the memtable that is active at the moment of the
\* write, never into one already in the immutable queue or flushed, and the
\* table of every flushed memtable holds exactly the entries of that memtable.
C27_NoWriteAfterFreeze ==
    /\ [][\A t \in Clients, k \in Keys, v \in Values \cup {Empty} :
            PutWrite(t, k, v) => local[t].id = state.memtable]_vars
    /\ [](\A id \in DOMAIN sst \cap DOMAIN mem : sst[id] = mem[id].data)

\* one client is inside its write with the read guard while the other, having
\* filled the same memtable, waits to freeze it
C27_Witness ==
    \E t, u \in Clients :
        /\ pc[t] = "put_write"
        /\ local[t].id = state.memtable
        /\ pc[u] = "put_freeze"
        /\ put_size_test(mem[state.memtable])

\* C28: no memtable that was moved out of the active place, queued or already
\* flushed, is empty, whatever other threads put and freeze meanwhile.
C28_NoEmptyFrozen == \A m \in FrozenIds : ~MemTableIsEmpty(mem[m])

\* C29: in every published state, and in the state recover builds from the
\* directory, the table map holds an entry for exactly the ids listed in L0 and
\* the levels.
C29_MapIsListed ==
    /\ state.sstables = Listed(state)
    /\ ~RecoverFails => Recover.sstables = Listed(Recover)

====
